---------------------------- MODULE Spec2Model ----------------------------
(***************************************************************************)
(* Model of glove_mqtt.cpp: the glove firmware that brings up Wi-Fi and    *)
(* MQTT, samples two flex sensors, an MPU6050 and two debounced touch      *)
(* pins every readInterval milliseconds, classifies the frame into a       *)
(* gesture code and publishes it.                                          *)
(*                                                                         *)
(* The firmware is one thread (setup() once, then loop() forever); pc is   *)
(* its position.  The Wi-Fi link, the MQTT session, the sensors and the    *)
(* millisecond clock belong to the environment: link and sess are what     *)
(* WiFi.status() and mqttClient.connected() report, and they may be lost   *)
(* between any two steps of the firmware.                                  *)
(*                                                                         *)
(* Time is counted in quanta of DebounceDelay (50 ms), the finest delay    *)
(* of the program; every delay() and readInterval are whole multiples of   *)
(* it.  The clock is an unsigned counter of ClockBits bits; it wraps       *)
(* round as the counter of the code does, and it goes a whole turn past    *)
(* lastReadTime only in a long pause (see After).                          *)
(* accelX is the float acceleration restricted to whole m/s^2.             *)
(***************************************************************************)
EXTENDS Integers, Sequences, FiniteSets, TLC

VARIABLES
    pc,            \* position of the firmware
    caller,        \* "setup" or "loop": where connectToWiFi/connectToMQTT return
    link,          \* WiFi.status(): "Up" (WL_CONNECTED) or "Down"
    sess,          \* session: "Disconnected", "Connecting", "Connected"
    staStarted,    \* WiFi.begin() has been called
    mpuReady,      \* "unknown", "ok", "failed": result of mpu.begin()
    now,           \* millis(), in quanta, modulo ClockMod (see After)
    lastReadTime,  \* global lastReadTime, in quanta
    flex1, flex2, accelX, touch1, touch2,   \* locals of detectGesture
    pin,           \* argument of the running debounceTouchSensor, 0 if none
    stableValue,   \* local of debounceTouchSensor: the first read
    secondRead,    \* the value of the second digitalRead
    reads,         \* digitalRead calls made by the running debounce
    gestureCode,   \* local of loop()
    message,       \* buffer of publishGesture, a sequence of characters
    sendResult,    \* result of the last mqttClient.publish: "none", "Ack", "Failure"
    sendSess,      \* sess at the moment of the last mqttClient.publish call
    sendTopic,     \* topic of the last mqttClient.publish call
    diag,          \* last line publishGesture/setup printed on Serial
    rounds,        \* delay() rounds of the supervisor since loop() was entered
    sendsInTick,   \* mqttClient.publish calls since lastReadTime was set
    sampled,       \* detectGesture has read a sensor at least once
    everSent,      \* mqttClient.publish has been called at least once
    lossBudget,    \* losses the environment may still inflict (bounded runs)
    stages,        \* the steps of loop() run so far in the current iteration
    booted,        \* the steps of setup() completed so far
    elapsed,       \* quanta since lastReadTime was set, up to readInterval
    callSite       \* where WiFi.begin or connect has just been called from, if it has

vars == <<pc, caller, link, sess, staStarted, mpuReady, now, lastReadTime,
          flex1, flex2, accelX, touch1, touch2, pin, stableValue, secondRead,
          reads, gestureCode, message, sendResult, sendSess, sendTopic, diag, rounds,
          sendsInTick, sampled, everSent, lossBudget, stages, booted, elapsed,
          callSite>>

frameVars == <<flex1, flex2, accelX, touch1, touch2>>
debounceVars == <<pin, stableValue, secondRead, reads>>
connVars == <<link, sess, staStarted>>
pubVars == <<message, sendResult, sendSess, sendTopic, diag, sendsInTick, everSent>>

----------------------------------------------------------------------------
(* Program constants *)

TOUCH_SENSOR_1_PIN == 4
TOUCH_SENSOR_2_PIN == 14

GESTURE_FIST == 1
GESTURE_OPEN_HAND == 2
GESTURE_LEFT == 3
GESTURE_RIGHT == 4

LOW == 0
HIGH == 1

readInterval == 500
DebounceDelay == 50
WiFiPollDelay == 500
MqttBackoff == 2000
MessageSize == 10

(* Bounds of the model *)

ClockBits == 4      \* width of the clock counter, in bits
MaxRounds == 2      \* the rounds counter saturates here
MaxSends == 2       \* the sendsInTick counter saturates here
MaxLoss == 2        \* losses per run under the bounded-loss specifications

ClockMod == 2 ^ ClockBits

Min(a, b) == IF a < b THEN a ELSE b

(* Inputs the environment can present *)
FlexValues == {100, 3000}
AccelValues == {-6, 0, 6}
Levels == {LOW, HIGH}

(* Inputs of the classification alone: every threshold and its neighbours *)
FlexBoundary == {0, 499, 500, 501, 1999, 2000, 2001, 4095}
AccelBoundary == {-6, -5, -4, 0, 4, 5, 6}

----------------------------------------------------------------------------
(* Pure functions *)

\* delay(ms) and the unsigned clock: ms is a multiple of the quantum
Quanta(ms) == ms \div DebounceDelay
\* unsigned subtraction a - b
USub(a, b) == (a - b + ClockMod) % ClockMod
\* millis() after a delay of ms that began at t, when the counter has not
\* gone a whole turn past lastReadTime.  The counter of the model is
\* ClockBits wide instead of 32: a difference currentTime - lastReadTime of
\* ClockMod - 1 quanta stands for every pause of that length or longer, up
\* to the 2^32 ms of the code.
Short(t, last, ms) == (last + Min(USub(t, last) + Quanta(ms), ClockMod - 1)) % ClockMod
\* millis() after a delay of ms in which the counter passed lastReadTime
\* again: it is less than ms beyond it
Lapped(last, ms) ==
    {(last + Min(d, ClockMod - 1)) % ClockMod : d \in 0 .. (Quanta(ms) - 1)}
\* the values millis() can have after a delay of ms that began at t; the
\* counter can pass lastReadTime again only once the pause is a long one
After(t, last, ms) ==
    {Short(t, last, ms)} \cup
        (IF USub(t, last) = ClockMod - 1 THEN Lapped(last, ms) ELSE {})

\* the test written as currentTime >= lastReadTime + readInterval, the sum
\* wrapping round
SampleDueSum(currentTime, last) == currentTime >= (last + Quanta(readInterval)) % ClockMod

\* loop(), line 79: currentTime - lastReadTime >= readInterval
SampleDue(currentTime, last) == USub(currentTime, last) >= Quanta(readInterval)

\* the time since lastReadTime was set, after a delay of ms; it is counted
\* without wrap-around and only up to readInterval
Later(e, ms) == Min(e + Quanta(ms), Quanta(readInterval))

\* a debounce that trusts the second read when the two reads differ
DebounceLastRead(first, second) == second

\* debounceTouchSensor, lines 141-144
DebounceResult(first, second) == IF second = first THEN first ELSE LOW

\* the Fist rule with the bound included: <= 500 instead of < 500
FistRuleInclusive(f1, f2, t1) == f1 <= 500 /\ f2 <= 500 /\ t1 = HIGH

\* the OpenHand rule with the comparison turned round: < 2000 instead of > 2000
OpenHandRuleBelow(f1, f2, t2) == f1 < 2000 /\ f2 < 2000 /\ t2 = HIGH

\* detectGesture, lines 160-169
FistRule(f1, f2, t1) == f1 < 500 /\ f2 < 500 /\ t1 = HIGH
OpenHandRule(f1, f2, t2) == f1 > 2000 /\ f2 > 2000 /\ t2 = HIGH
LeftRule(ax) == ax < -5
RightRule(ax) == ax > 5

\* the rules with the two tilt rules tested before the two flex rules
ClassifyTiltFirst(f1, f2, ax, t1, t2) ==
    IF LeftRule(ax) THEN GESTURE_LEFT
    ELSE IF RightRule(ax) THEN GESTURE_RIGHT
    ELSE IF FistRule(f1, f2, t1) THEN GESTURE_FIST
    ELSE IF OpenHandRule(f1, f2, t2) THEN GESTURE_OPEN_HAND
    ELSE 0

Classify(f1, f2, ax, t1, t2) ==
    IF FistRule(f1, f2, t1) THEN GESTURE_FIST
    ELSE IF OpenHandRule(f1, f2, t2) THEN GESTURE_OPEN_HAND
    ELSE IF LeftRule(ax) THEN GESTURE_LEFT
    ELSE IF RightRule(ax) THEN GESTURE_RIGHT
    ELSE 0

\* snprintf(message, sizeof(message), "0x%02X", gestureCode), line 184
HexDigits == <<"0", "1", "2", "3", "4", "5", "6", "7",
               "8", "9", "A", "B", "C", "D", "E", "F">>

RECURSIVE ToHex(_)
ToHex(n) == IF n < 16 THEN <<HexDigits[n + 1]>>
            ELSE ToHex(n \div 16) \o <<HexDigits[(n % 16) + 1]>>

RECURSIVE ZeroPad(_, _)
ZeroPad(s, width) == IF Len(s) < width THEN ZeroPad(<<"0">> \o s, width) ELSE s

Truncate(s, size) == SubSeq(s, 1, Min(Len(s), size - 1))

\* the format "0x%X": no zero padding
FormatNoPad(code) == Truncate(<<"0", "x">> \o ToHex(code), MessageSize)

FormatMessage(code) == Truncate(<<"0", "x">> \o ZeroPad(ToHex(code), 2), MessageSize)

mqttTopic == "robotic_arm/commands"

----------------------------------------------------------------------------
(* Initial state: power-on, before setup() *)

Init ==
    /\ pc = "setup"
    /\ caller = "setup"
    /\ link = "Down"
    /\ sess = "Disconnected"
    /\ staStarted = FALSE
    /\ mpuReady = "unknown"
    /\ now = 0
    /\ lastReadTime = 0
    /\ flex1 = 0 /\ flex2 = 0 /\ accelX = 0 /\ touch1 = LOW /\ touch2 = LOW
    /\ pin = 0 /\ stableValue = LOW /\ secondRead = LOW /\ reads = 0
    /\ gestureCode = 0
    /\ message = <<>>
    /\ sendResult = "none"
    /\ sendSess = "none"
    /\ sendTopic = ""
    /\ diag = ""
    /\ rounds = 0
    /\ sendsInTick = 0
    /\ sampled = FALSE
    /\ everSent = FALSE
    /\ lossBudget = MaxLoss
    /\ stages = <<>>
    /\ booted = <<>>
    /\ elapsed = 0
    /\ callSite = "none"

----------------------------------------------------------------------------
(* setup() *)

\* lines 52-56: Serial.begin, then the call of connectToWiFi
Setup ==
    /\ pc = "setup"
    /\ pc' = "wifi_begin"
    /\ UNCHANGED <<caller, connVars, mpuReady, now, lastReadTime, frameVars,
                   debounceVars, gestureCode, pubVars, rounds, sampled, lossBudget>>
    /\ UNCHANGED <<stages, booted, elapsed, callSite>>

\* lines 64-67: mpu.begin() succeeds; setup returns and loop() starts
MpuBeginOk ==
    /\ pc = "mpu_begin"
    /\ mpuReady' = "ok"
    /\ caller' = "loop"
    /\ pc' = "ensure_wifi"
    /\ UNCHANGED <<connVars, now, lastReadTime, frameVars, debounceVars,
                   gestureCode, pubVars, rounds, sampled, lossBudget>>
    /\ booted' = Append(booted, "sensor")
    /\ UNCHANGED <<stages, elapsed, callSite>>

\* mpu.begin() fails and setup prints the diagnostic but returns: no while (1);
MpuBeginFailNoHalt ==
    /\ pc = "mpu_begin"
    /\ mpuReady' = "failed"
    /\ diag' = "Failed to find MPU6050 chip."
    /\ caller' = "loop"
    /\ pc' = "ensure_wifi"
    /\ UNCHANGED <<connVars, now, lastReadTime, frameVars, debounceVars,
                   gestureCode, message, sendResult, sendSess, sendTopic,
                   sendsInTick, everSent, rounds, sampled, lossBudget>>
    /\ UNCHANGED <<stages, booted, elapsed, callSite>>

\* lines 64-66: mpu.begin() fails; the diagnostic, then while (1);
MpuBeginFail ==
    /\ pc = "mpu_begin"
    /\ mpuReady' = "failed"
    /\ diag' = "Failed to find MPU6050 chip."
    /\ pc' = "halt"
    /\ UNCHANGED <<caller, connVars, now, lastReadTime, frameVars, debounceVars,
                   gestureCode, message, sendResult, sendSess, sendTopic,
                   sendsInTick, everSent, rounds, sampled, lossBudget>>
    /\ UNCHANGED <<stages, booted, elapsed, callSite>>

\* line 66: while (1);
Halt ==
    /\ pc = "halt"
    /\ UNCHANGED vars

----------------------------------------------------------------------------
(* connectToWiFi(), lines 89-98 *)

\* the counter of blocking rounds counts inside loop() only
Round(n) == IF caller = "loop" THEN Min(n + 1, MaxRounds) ELSE n

\* line 92: WiFi.begin(ssid, password)
WiFiBegin ==
    /\ pc = "wifi_begin"
    /\ staStarted' = TRUE
    /\ pc' = "wifi_status"
    /\ UNCHANGED <<caller, link, sess, mpuReady, now, lastReadTime, frameVars,
                   debounceVars, gestureCode, pubVars, rounds, sampled, lossBudget>>
    /\ UNCHANGED <<stages, booted, elapsed>>
    /\ callSite' = "wifi_begin"

\* a connectToWiFi that returns after WiFi.begin without waiting for the link
WiFiStatusNoWait ==
    /\ pc = "wifi_status"
    /\ pc' = IF caller = "setup" THEN "mqtt_connected" ELSE "ensure_mqtt"
    /\ UNCHANGED <<caller, connVars, mpuReady, now, lastReadTime, frameVars,
                   debounceVars, gestureCode, pubVars, rounds, sampled, lossBudget>>
    /\ booted' = IF caller = "setup" THEN Append(booted, "link")
                  ELSE booted
    /\ UNCHANGED <<stages, elapsed>>
    /\ callSite' = "none"

\* line 93: while (WiFi.status() != WL_CONNECTED); on exit the function
\* returns, into setup (line 59-61) or into loop (line 76)
WiFiStatus ==
    /\ pc = "wifi_status"
    /\ pc' = IF link = "Up"
             THEN (IF caller = "setup" THEN "mqtt_connected" ELSE "ensure_mqtt")
             ELSE "wifi_delay"
    /\ UNCHANGED <<caller, connVars, mpuReady, now, lastReadTime, frameVars,
                   debounceVars, gestureCode, pubVars, rounds, sampled, lossBudget>>
    /\ booted' = IF link = "Up" /\ caller = "setup" THEN Append(booted, "link")
                  ELSE booted
    /\ UNCHANGED <<stages, elapsed>>
    /\ callSite' = "none"

\* line 94: delay(500)
WiFiDelay ==
    /\ pc = "wifi_delay"
    /\ now' \in After(now, lastReadTime, WiFiPollDelay)
    /\ rounds' = Round(rounds)
    /\ pc' = "wifi_status"
    /\ UNCHANGED <<caller, connVars, mpuReady, lastReadTime, frameVars,
                   debounceVars, gestureCode, pubVars, sampled, lossBudget>>
    /\ elapsed' = Later(elapsed, WiFiPollDelay)
    /\ UNCHANGED <<stages, booted, callSite>>

----------------------------------------------------------------------------
(* connectToMQTT(), lines 106-117 *)

\* line 107: while (!mqttClient.connected()); on exit the function returns,
\* into setup (line 64) or into loop (line 78)
MqttConnected ==
    /\ pc = "mqtt_connected"
    /\ pc' = IF sess = "Connected"
             THEN (IF caller = "setup" THEN "mpu_begin" ELSE "loop_millis")
             ELSE "mqtt_connect"
    /\ UNCHANGED <<caller, connVars, mpuReady, now, lastReadTime, frameVars,
                   debounceVars, gestureCode, pubVars, rounds, sampled, lossBudget>>
    /\ booted' = IF sess = "Connected" /\ caller = "setup"
                  THEN Append(booted, "session") ELSE booted
    /\ UNCHANGED <<stages, elapsed, callSite>>

\* line 109: mqttClient.connect("ESP32") is called; the attempt is under way
MqttConnectBegin ==
    /\ pc = "mqtt_connect"
    /\ sess' = "Connecting"
    /\ pc' = "mqtt_connecting"
    /\ UNCHANGED <<caller, link, staStarted, mpuReady, now, lastReadTime, frameVars,
                   debounceVars, gestureCode, pubVars, rounds, sampled, lossBudget>>
    /\ UNCHANGED <<stages, booted, elapsed>>
    /\ callSite' = "mqtt_connect"

\* lines 109-110: connect returns true; it can only on a link that is up
MqttConnectOk ==
    /\ pc = "mqtt_connecting"
    /\ link = "Up"
    /\ sess' = "Connected"
    /\ pc' = "mqtt_connected"
    /\ UNCHANGED <<caller, link, staStarted, mpuReady, now, lastReadTime, frameVars,
                   debounceVars, gestureCode, pubVars, rounds, sampled, lossBudget>>
    /\ UNCHANGED <<stages, booted, elapsed>>
    /\ callSite' = "none"

\* lines 111-113: connect returns false
ConnectFails ==
    /\ pc = "mqtt_connecting"
    /\ sess' = "Disconnected"
    /\ pc' = "mqtt_delay"
    /\ UNCHANGED <<caller, link, staStarted, mpuReady, now, lastReadTime, frameVars,
                   debounceVars, gestureCode, pubVars, rounds, sampled, lossBudget>>
    /\ UNCHANGED <<stages, booted, elapsed>>
    /\ callSite' = "none"

\* the broker may refuse a connect on any link
MqttConnectFail == ConnectFails

\* the connect fails only because the link is down
MqttConnectFailDown == link = "Down" /\ ConnectFails

\* line 114: delay(2000)
MqttDelay ==
    /\ pc = "mqtt_delay"
    /\ now' \in After(now, lastReadTime, MqttBackoff)
    /\ rounds' = Round(rounds)
    /\ pc' = "mqtt_connected"
    /\ UNCHANGED <<caller, connVars, mpuReady, lastReadTime, frameVars,
                   debounceVars, gestureCode, pubVars, sampled, lossBudget>>
    /\ elapsed' = Later(elapsed, MqttBackoff)
    /\ UNCHANGED <<stages, booted, callSite>>

----------------------------------------------------------------------------
(* loop(), lines 74-86 *)

\* a loop() that polls the link but not the session when the link is up
EnsureWiFiOnly ==
    /\ pc = "ensure_wifi"
    /\ pc' = IF link # "Up" THEN "wifi_begin" ELSE "loop_millis"
    /\ rounds' = 0
    /\ sendsInTick' = 0
    /\ flex1' = 0 /\ flex2' = 0 /\ accelX' = 0 /\ touch1' = LOW /\ touch2' = LOW
    /\ pin' = 0 /\ stableValue' = LOW /\ secondRead' = LOW /\ reads' = 0
    /\ gestureCode' = 0
    /\ message' = <<>>
    /\ sendSess' = "none"
    /\ sendTopic' = ""
    /\ diag' = ""
    /\ UNCHANGED <<caller, connVars, mpuReady, now, lastReadTime, sendResult,
                   everSent, sampled, lossBudget>>
    /\ stages' = <<"link">>
    /\ UNCHANGED <<booted, elapsed>>
    /\ callSite' = "none"

\* lines 75 and 100-104: a new iteration starts; the locals of the previous
\* one are gone.  ensureWiFiConnection calls connectToWiFi on a link down.
EnsureWiFiConnection ==
    /\ pc = "ensure_wifi"
    /\ pc' = IF link # "Up" THEN "wifi_begin" ELSE "ensure_mqtt"
    /\ rounds' = 0
    /\ sendsInTick' = 0
    /\ flex1' = 0 /\ flex2' = 0 /\ accelX' = 0 /\ touch1' = LOW /\ touch2' = LOW
    /\ pin' = 0 /\ stableValue' = LOW /\ secondRead' = LOW /\ reads' = 0
    /\ gestureCode' = 0
    /\ message' = <<>>
    /\ sendSess' = "none"
    /\ sendTopic' = ""
    /\ diag' = ""
    /\ UNCHANGED <<caller, connVars, mpuReady, now, lastReadTime, sendResult,
                   everSent, sampled, lossBudget>>
    /\ stages' = <<"link">>
    /\ UNCHANGED <<booted, elapsed>>
    /\ callSite' = "none"

\* lines 76 and 119-123: ensureMQTTConnection calls connectToMQTT on a
\* session that is not connected
EnsureMQTTConnection ==
    /\ pc = "ensure_mqtt"
    /\ pc' = IF sess # "Connected" THEN "mqtt_connected" ELSE "loop_millis"
    /\ UNCHANGED <<caller, connVars, mpuReady, now, lastReadTime, frameVars,
                   debounceVars, gestureCode, pubVars, rounds, sampled, lossBudget>>
    /\ stages' = Append(stages, "session")
    /\ UNCHANGED <<booted, elapsed, callSite>>

\* lines 78-81: the interval has elapsed; lastReadTime is set and
\* detectGesture is called
LoopSample ==
    /\ pc = "loop_millis"
    /\ SampleDue(now, lastReadTime)
    /\ lastReadTime' = now
    /\ pc' = "detect_read"
    /\ UNCHANGED <<caller, connVars, mpuReady, now, frameVars, debounceVars,
                   gestureCode, pubVars, rounds, sampled, lossBudget>>
    /\ elapsed' = 0
    /\ UNCHANGED <<stages, booted, callSite>>

\* lines 78-79 and 85-86: the interval has not elapsed; loop() returns
LoopSkip ==
    /\ pc = "loop_millis"
    /\ ~SampleDue(now, lastReadTime)
    /\ pc' = "ensure_wifi"
    /\ UNCHANGED <<caller, connVars, mpuReady, now, lastReadTime, frameVars,
                   debounceVars, gestureCode, pubVars, rounds, sampled, lossBudget>>
    /\ UNCHANGED <<stages, booted, elapsed, callSite>>

----------------------------------------------------------------------------
(* detectGesture(), lines 147-170, and debounceTouchSensor(), lines 138-145 *)

\* lines 149-153: both flex sensors and the MPU6050 are read, then
\* debounceTouchSensor(TOUCH_SENSOR_1_PIN) is called
DetectRead ==
    /\ pc = "detect_read"
    /\ flex1' \in FlexValues
    /\ flex2' \in FlexValues
    /\ accelX' \in AccelValues
    /\ sampled' = TRUE
    /\ pin' = TOUCH_SENSOR_1_PIN
    /\ reads' = 0
    /\ pc' = "debounce_read1"
    /\ UNCHANGED <<caller, connVars, mpuReady, now, lastReadTime, touch1, touch2,
                   stableValue, secondRead, gestureCode, pubVars, rounds, lossBudget>>
    /\ stages' = stages \o <<"flex", "inertial">>
    /\ UNCHANGED <<booted, elapsed, callSite>>

\* line 139: int stableValue = digitalRead(pin)
DebounceRead1 ==
    /\ pc = "debounce_read1"
    /\ stableValue' \in Levels
    /\ reads' = reads + 1
    /\ pc' = "debounce_delay"
    /\ UNCHANGED <<caller, connVars, mpuReady, now, lastReadTime, frameVars, pin,
                   secondRead, gestureCode, pubVars, rounds, sampled, lossBudget>>
    /\ stages' = Append(stages, IF pin = TOUCH_SENSOR_1_PIN THEN "touch1" ELSE "touch2")
    /\ UNCHANGED <<booted, elapsed, callSite>>

\* line 140: delay(50)
DebounceWait ==
    /\ pc = "debounce_delay"
    /\ now' \in After(now, lastReadTime, DebounceDelay)
    /\ pc' = "debounce_read2"
    /\ UNCHANGED <<caller, connVars, mpuReady, lastReadTime, frameVars,
                   debounceVars, gestureCode, pubVars, rounds, sampled, lossBudget>>
    /\ elapsed' = Later(elapsed, DebounceDelay)
    /\ UNCHANGED <<stages, booted, callSite>>

\* lines 141-144 and 153-154: the second read and the value returned, which
\* detectGesture stores in touch1 or touch2
DebounceRead2 ==
    /\ pc = "debounce_read2"
    /\ \E v \in Levels :
          /\ secondRead' = v
          /\ IF pin = TOUCH_SENSOR_1_PIN
             THEN touch1' = DebounceResult(stableValue, v) /\ touch2' = touch2
             ELSE touch2' = DebounceResult(stableValue, v) /\ touch1' = touch1
    /\ reads' = reads + 1
    /\ pc' = "debounce_done"
    /\ UNCHANGED <<caller, connVars, mpuReady, now, lastReadTime, flex1, flex2,
                   accelX, pin, stableValue, gestureCode, pubVars, rounds, sampled,
                   lossBudget>>
    /\ UNCHANGED <<stages, booted, elapsed, callSite>>

\* line 154: after touch1, debounceTouchSensor(TOUCH_SENSOR_2_PIN) is called;
\* after touch2, detectGesture goes on to classify
DebounceDone ==
    /\ pc = "debounce_done"
    /\ IF pin = TOUCH_SENSOR_1_PIN
       THEN /\ pin' = TOUCH_SENSOR_2_PIN
            /\ pc' = "debounce_read1"
       ELSE /\ pin' = 0
            /\ pc' = "classify"
    /\ stableValue' = LOW
    /\ secondRead' = LOW
    /\ reads' = 0
    /\ UNCHANGED <<caller, connVars, mpuReady, now, lastReadTime, frameVars,
                   gestureCode, pubVars, rounds, sampled, lossBudget>>
    /\ UNCHANGED <<stages, booted, elapsed, callSite>>

\* lines 160-169 and 81-84: the rules, and loop()'s test of the result
ClassifyStep ==
    /\ pc = "classify"
    /\ gestureCode' = Classify(flex1, flex2, accelX, touch1, touch2)
    /\ pc' = IF gestureCode' # 0 THEN "publish" ELSE "ensure_wifi"
    /\ UNCHANGED <<caller, connVars, mpuReady, now, lastReadTime, frameVars,
                   debounceVars, pubVars, rounds, sampled, lossBudget>>
    /\ stages' = Append(stages, "classify")
    /\ UNCHANGED <<booted, elapsed, callSite>>

----------------------------------------------------------------------------
(* publishGesture(), lines 182-191 *)

\* what mqttClient.publish can return: Ack only on a connected session
SendResults == IF sess = "Connected" THEN {"Ack", "Failure"} ELSE {"Failure"}

\* a publishGesture that calls mqttClient.publish again after a Failure
PublishGestureRetry ==
    /\ pc = "publish"
    /\ message' = FormatMessage(gestureCode)
    /\ sendTopic' = mqttTopic
    /\ sendSess' = sess
    /\ \E r \in SendResults :
          /\ sendResult' = r
          /\ diag' = IF r = "Failure" THEN "Failed to publish gesture code!"
                     ELSE "Published gesture code: "
          /\ pc' = IF r = "Failure" THEN "publish" ELSE "ensure_wifi"
    /\ sendsInTick' = Min(sendsInTick + 1, MaxSends)
    /\ everSent' = TRUE
    /\ UNCHANGED <<caller, connVars, mpuReady, now, lastReadTime, frameVars,
                   debounceVars, gestureCode, rounds, sampled, lossBudget>>
    /\ stages' = Append(stages, "publish")
    /\ UNCHANGED <<booted, elapsed, callSite>>

\* a publishGesture that reopens the session itself after a Failure
PublishGestureReconnect ==
    /\ pc = "publish"
    /\ message' = FormatMessage(gestureCode)
    /\ sendTopic' = mqttTopic
    /\ sendSess' = sess
    /\ \E r \in SendResults :
          /\ sendResult' = r
          /\ diag' = IF r = "Failure" THEN "Failed to publish gesture code!"
                     ELSE "Published gesture code: "
          /\ sess' = IF r = "Failure" /\ link = "Up" THEN "Connected" ELSE sess
    /\ sendsInTick' = Min(sendsInTick + 1, MaxSends)
    /\ everSent' = TRUE
    /\ pc' = "ensure_wifi"
    /\ UNCHANGED <<caller, link, staStarted, mpuReady, now, lastReadTime, frameVars,
                   debounceVars, gestureCode, rounds, sampled, lossBudget>>
    /\ stages' = Append(stages, "publish")
    /\ UNCHANGED <<booted, elapsed>>
    /\ callSite' = IF sendResult' = "Failure" /\ link = "Up" THEN "publish" ELSE callSite

\* lines 183-190: the message is formatted and handed to mqttClient.publish
\* once; either diagnostic is printed and the function returns
PublishGesture ==
    /\ pc = "publish"
    /\ message' = FormatMessage(gestureCode)
    /\ sendTopic' = mqttTopic
    /\ sendSess' = sess
    /\ \E r \in SendResults :
          /\ sendResult' = r
          /\ diag' = IF r = "Failure" THEN "Failed to publish gesture code!"
                     ELSE "Published gesture code: "
    /\ sendsInTick' = Min(sendsInTick + 1, MaxSends)
    /\ everSent' = TRUE
    /\ pc' = "ensure_wifi"
    /\ UNCHANGED <<caller, connVars, mpuReady, now, lastReadTime, frameVars,
                   debounceVars, gestureCode, rounds, sampled, lossBudget>>
    /\ stages' = Append(stages, "publish")
    /\ UNCHANGED <<booted, elapsed, callSite>>

----------------------------------------------------------------------------
(* The environment *)

progVars == <<pc, caller, mpuReady, lastReadTime, frameVars, debounceVars,
              gestureCode, pubVars, rounds, sampled>>

\* the link drops (WiFi.status() leaves WL_CONNECTED); the session layer may
\* report the loss at once or go on reporting a connected session
LinkDrops ==
    /\ link = "Up"
    /\ link' = "Down"
    /\ sess' \in (IF sess = "Connected" THEN {"Connected", "Disconnected"} ELSE {sess})
    /\ UNCHANGED <<staStarted, now, progVars>>
    /\ UNCHANGED <<stages, booted, elapsed, callSite>>

\* the session is lost (mqttClient.connected() turns false)
SessionDrops ==
    /\ sess = "Connected"
    /\ sess' = "Disconnected"
    /\ UNCHANGED <<link, staStarted, now, progVars>>
    /\ UNCHANGED <<stages, booted, elapsed, callSite>>

LinkLoss == LinkDrops /\ UNCHANGED lossBudget

SessionLoss == SessionDrops /\ UNCHANGED lossBudget

\* the station started by WiFi.begin associates
LinkUp ==
    /\ staStarted
    /\ link = "Down"
    /\ link' = "Up"
    /\ UNCHANGED <<sess, staStarted, now, progVars, lossBudget>>
    /\ UNCHANGED <<stages, booted, elapsed, callSite>>

\* a quantum passes before line 78 reads millis(): the time the iterations
\* of loop() take outside the delays.  It may pass before a sample is due
\* and after, and it may be the quantum in which the counter passes
\* lastReadTime again at the end of a long pause.
ClockTick ==
    /\ pc = "loop_millis"
    /\ now' \in After(now, lastReadTime, DebounceDelay)
    /\ UNCHANGED <<connVars, progVars, lossBudget>>
    /\ elapsed' = Later(elapsed, DebounceDelay)
    /\ UNCHANGED <<stages, booted, callSite>>

----------------------------------------------------------------------------
(* Specifications *)

Firmware ==
    \/ Setup \/ WiFiBegin \/ WiFiStatus \/ WiFiDelay
    \/ MqttConnected \/ MqttConnectBegin \/ MqttConnectOk \/ MqttDelay
    \/ MpuBeginOk \/ MpuBeginFail \/ Halt
    \/ EnsureWiFiConnection \/ EnsureMQTTConnection \/ LoopSample \/ LoopSkip
    \/ DetectRead \/ DebounceRead1 \/ DebounceWait \/ DebounceRead2 \/ DebounceDone
    \/ ClassifyStep \/ PublishGesture

Next ==
    \/ Firmware
    \/ MqttConnectFail
    \/ LinkLoss \/ SessionLoss \/ LinkUp \/ ClockTick

Spec == Init /\ [][Next]_vars

(* Runs with a bounded number of losses, in which an associate and a connect
   succeed when attempted on an available transport, and the firmware and
   the clock keep going *)

LinkLossBounded ==
    /\ lossBudget > 0
    /\ lossBudget' = lossBudget - 1
    /\ LinkDrops

SessionLossBounded ==
    /\ lossBudget > 0
    /\ lossBudget' = lossBudget - 1
    /\ SessionDrops

\* connectToWiFi is polling the status: an associate is being attempted
Associating == pc \in {"wifi_status", "wifi_delay"}

FairNext ==
    \/ Firmware
    \/ MqttConnectFailDown
    \/ LinkLossBounded \/ SessionLossBounded \/ LinkUp \/ ClockTick

\* The fair runs: the one thread of the firmware keeps running, an
\* association under way completes, time passes, and the interval test of
\* line 79, which follows the read of line 78 within microseconds, does not
\* miss for ever a sample that is due again and again.
FairSpec ==
    /\ Init
    /\ [][FairNext]_vars
    /\ WF_vars(Firmware \/ MqttConnectFailDown)
    /\ WF_vars(Associating /\ LinkUp)
    /\ SF_vars(ClockTick)
    /\ SF_vars(LoopSample)

(* The classification alone, on every threshold and its neighbours: the
   firmware is about to classify a frame it has just acquired *)

ClassifyInit ==
    /\ pc = "classify"
    /\ caller = "loop"
    /\ link = "Up"
    /\ sess = "Connected"
    /\ staStarted = TRUE
    /\ mpuReady = "ok"
    /\ lastReadTime = Quanta(readInterval)
    /\ now = Short(Short(lastReadTime, lastReadTime, DebounceDelay), lastReadTime, DebounceDelay)
    /\ flex1 \in FlexBoundary
    /\ flex2 \in FlexBoundary
    /\ accelX \in AccelBoundary
    /\ touch1 \in Levels
    /\ touch2 \in Levels
    /\ pin = 0 /\ stableValue = LOW /\ secondRead = LOW /\ reads = 0
    /\ gestureCode = 0
    /\ message = <<>>
    /\ sendResult = "none"
    /\ sendSess = "none"
    /\ sendTopic = ""
    /\ diag = ""
    /\ rounds = 0
    /\ sendsInTick = 0
    /\ sampled = TRUE
    /\ everSent = FALSE
    /\ lossBudget = MaxLoss
    /\ stages = <<"link", "session", "flex", "inertial", "touch1", "touch2">>
    /\ booted = <<"link", "session", "sensor">>
    /\ elapsed = Later(Later(0, DebounceDelay), DebounceDelay)
    /\ callSite = "none"

ClassifyNext == ClassifyStep

ClassifySpec == ClassifyInit /\ [][ClassifyNext]_vars

----------------------------------------------------------------------------
(* Properties *)

\* the firmware has just returned from detectGesture (and from
\* publishGesture, when it was called)
TickClassified == pc \in {"publish", "ensure_wifi"}

\* the rule the frame in flex1, flex2, accelX, touch1, touch2 matches first,
\* in the order Fist, OpenHand, Left, Right, written out on the thresholds
FirstMatchingRule ==
    IF flex1 < 500 /\ flex2 < 500 /\ touch1 = 1 THEN 1
    ELSE IF flex1 > 2000 /\ flex2 > 2000 /\ touch2 = 1 THEN 2
    ELSE IF accelX < -5 THEN 3
    ELSE IF accelX > 5 THEN 4
    ELSE 0

\* C1: every call of mqttClient.publish by publishGesture is made while the
\* session is Connected, also when the session or the link is lost between
\* the supervisor poll and the publish of the same tick.
C1_PublishOnlyWhileConnected == sendSess \in {"none", "Connected"}

\* C2: the session is Connected only on a link that is Up, and once the
\* supervisor poll of loop() has observed the link down (it is inside
\* connectToWiFi), the session is Disconnected.
C2_ConnectedImpliesLinkUp ==
    /\ sess = "Connected" => link = "Up"
    /\ (caller = "loop" /\ pc \in {"wifi_begin", "wifi_status", "wifi_delay"})
          => sess = "Disconnected"

\* C3: one supervisor poll of loop() (ensureWiFiConnection followed by
\* ensureMQTTConnection) makes at most one blocking delay round before it
\* returns.
C3_AtMostOneRetryRound == rounds <= 1

\* C4: once the firmware is in loop(), whenever the link is down or the
\* session is not Connected, eventually the link is Up and the session
\* Connected again, and eventually another sample is taken.
C4_ConnectivityRecovered ==
    /\ (mpuReady = "ok" /\ (link = "Down" \/ sess # "Connected"))
          ~> (link = "Up" /\ sess = "Connected")
    /\ (mpuReady = "ok" /\ (link = "Down" \/ sess # "Connected"))
          ~> (pc = "detect_read")

\* C5: a frame with flex1 < 500, flex2 < 500 and touch1 active is classified
\* Fist whatever accelX and touch2 are, and every frame is classified as the
\* first rule it matches in the order Fist, OpenHand, Left, Right, else None.
C5_FirstMatchWins ==
    TickClassified =>
        /\ (flex1 < 500 /\ flex2 < 500 /\ touch1 = 1) => gestureCode = 1
        /\ gestureCode = FirstMatchingRule

\* a frame that matches the Fist rule and a tilt rule has been classified Fist
C5_Witness ==
    /\ pc = "publish"
    /\ flex1 < 500 /\ flex2 < 500 /\ touch1 = 1
    /\ (accelX < -5 \/ accelX > 5)
    /\ gestureCode = 1

\* C6: the thresholds are strict: a flex value of exactly 500 never gives
\* Fist, one of exactly 2000 never gives OpenHand, accelX of exactly -5 or 5
\* never gives Left or Right, and flex1 = 500 with touch2 inactive and
\* |accelX| <= 5 gives None.
C6_StrictThresholds ==
    TickClassified =>
        /\ (flex1 = 500 \/ flex2 = 500) => gestureCode # 1
        /\ (flex1 = 2000 \/ flex2 = 2000) => gestureCode # 2
        /\ (accelX = -5 \/ accelX = 5) => gestureCode \notin {3, 4}
        /\ (flex1 = 500 /\ touch2 = 0 /\ accelX >= -5 /\ accelX <= 5)
              => gestureCode = 0

\* a frame on the Fist bound, with touch1 active, has been classified None
C6_Witness ==
    /\ pc = "ensure_wifi"
    /\ flex1 = 500 /\ flex2 = 499 /\ touch1 = 1 /\ touch2 = 0 /\ accelX = 5
    /\ gestureCode = 0

\* C7: a debounce makes exactly two reads of the pin, one debounce wait
\* apart, and returns HIGH exactly when both reads were HIGH: the common
\* value when the reads agree, LOW when they differ in either order.
C7_DebounceTwoReads ==
    pc = "debounce_done" =>
        LET result == IF pin = 4 THEN touch1 ELSE touch2
            waits == IF pin = 4 THEN 1 ELSE 2
        IN  /\ pin \in {4, 14}
            /\ reads = 2
            /\ USub(now, lastReadTime) = waits
            /\ (result = 1) <=> (stableValue = 1 /\ secondRead = 1)
            /\ (result = 0) <=> (stableValue = 0 \/ secondRead = 0)

\* the two reads differed, LOW then HIGH, and the debounce returned LOW
C7_Witness ==
    /\ pc = "debounce_done"
    /\ pin = 14
    /\ stableValue = 0 /\ secondRead = 1
    /\ touch2 = 0

\* C8: publishGesture calls mqttClient.publish at most once per iteration of
\* loop(); a Failure is reported by the failure diagnostic and never by the
\* success one, and after either result the firmware is back at the top of
\* loop() to poll the supervisor, sample and classify again.
C8_PublishFailureNotRetried ==
    /\ sendsInTick <= 1
    /\ sendsInTick = 1 =>
          /\ pc = "ensure_wifi"
          /\ sendResult \in {"Ack", "Failure"}
          /\ (sendResult = "Failure") <=> (diag = "Failed to publish gesture code!")
          /\ (sendResult = "Ack") <=> (diag = "Published gesture code: ")
    /\ sendsInTick = 0 => diag \notin {"Failed to publish gesture code!",
                                       "Published gesture code: "}

\* after a failed send, a later iteration has sampled and classified a new
\* frame and is about to send its gesture
C8_Witness ==
    /\ sendResult = "Failure"
    /\ pc = "publish"
    /\ sendsInTick = 0
    /\ gestureCode # 0

\* C9: the payload handed to the session is "0x01", "0x02", "0x03" or "0x04"
\* for Fist, OpenHand, Left, Right as classified from the frame of the same
\* iteration, on the topic robotic_arm/commands; when the frame is
\* classified None, no send is made in that iteration.
C9_PayloadFromClassification ==
    /\ sendsInTick > 0 =>
          /\ gestureCode = FirstMatchingRule
          /\ gestureCode \in 1..4
          /\ Len(message) = 4
          /\ message = <<"0", "x", "0", <<"1", "2", "3", "4">>[gestureCode]>>
          /\ sendTopic = "robotic_arm/commands"
    /\ (TickClassified /\ FirstMatchingRule = 0) => sendsInTick = 0 /\ pc # "publish"

\* the frame of this iteration was classified Right and "0x04" was sent
C9_Witness ==
    /\ sendsInTick = 1
    /\ accelX > 5
    /\ gestureCode = 4
    /\ message = <<"0", "x", "0", "4">>

\* C10: when mpu.begin() has failed in setup, the firmware is halted in
\* setup in every later state: loop() is never entered, no sensor is read
\* and nothing is published.
C10_SensorFailureHalts ==
    mpuReady = "failed" =>
        /\ pc = "halt"
        /\ caller = "setup"
        /\ ~sampled
        /\ ~everSent
        /\ gestureCode = 0

\* the firmware is halted after a failed mpu.begin() while the link has
\* since dropped
C10_Witness ==
    /\ mpuReady = "failed"
    /\ pc = "halt"
    /\ link = "Down"

\* C11: a session connect attempt is started or retried (the session goes
\* to Connecting, at mqttClient.connect) only while the link is Up, in
\* setup() and in the retry loop of connectToMQTT alike.
C11_ConnectOnlyOnLinkUp ==
    [][(sess # "Connecting" /\ sess' = "Connecting") => link = "Up"]_vars

\* the order of the steps of one iteration of loop()
FullOrder == <<"link", "session", "flex", "inertial", "touch1", "touch2",
               "classify", "publish">>

IsPrefix(s, t) == Len(s) <= Len(t) /\ s = SubSeq(t, 1, Len(s))

\* C12: in every iteration of loop() the steps run in the order link check,
\* session check, flex, inertial, touch1 debounce, touch2 debounce,
\* classification, publish; both checks have run before the interval is
\* tested, before any acquisition and before any publish, and an iteration
\* ends after the two checks (no sample due), after the classification
\* (None) or after the publish.
C12_FixedOrder ==
    /\ IsPrefix(stages, FullOrder)
    /\ caller = "setup" => stages = <<>>
    /\ pc \in {"loop_millis", "detect_read"} => stages = <<"link", "session">>
    /\ pc = "classify" => stages = SubSeq(FullOrder, 1, 6)
    /\ pc = "publish" => stages = SubSeq(FullOrder, 1, 7)
    /\ sendsInTick > 0 => stages = FullOrder
    /\ (caller = "loop" /\ pc = "ensure_wifi" /\ stages # <<>>)
          => Len(stages) \in {2, 7, 8}

\* an iteration has run every step, down to the publish
C12_Witness ==
    /\ pc = "ensure_wifi"
    /\ stages = FullOrder
    /\ sendsInTick = 1

\* the rules whose guard the frame in flex1, flex2, accelX, touch1, touch2
\* satisfies
MatchedRules ==
    (IF FistRule(flex1, flex2, touch1) THEN {GESTURE_FIST} ELSE {})
    \cup (IF OpenHandRule(flex1, flex2, touch2) THEN {GESTURE_OPEN_HAND} ELSE {})
    \cup (IF LeftRule(accelX) THEN {GESTURE_LEFT} ELSE {})
    \cup (IF RightRule(accelX) THEN {GESTURE_RIGHT} ELSE {})

\* C13 as claimed: every frame within the sensor ranges satisfies at most
\* one of the four rule guards (Fist, OpenHand, Left, Right).
C13_AtMostOneRule == Cardinality(MatchedRules) <= 1

\* C13 as amended: every frame within the sensor ranges satisfies at most
\* one of the two flex guards (never both Fist and OpenHand) and at most one
\* of the two tilt guards (never both Left and Right).
C13_FlexExclusiveTiltExclusive ==
    /\ ~(GESTURE_FIST \in MatchedRules /\ GESTURE_OPEN_HAND \in MatchedRules)
    /\ ~(GESTURE_LEFT \in MatchedRules /\ GESTURE_RIGHT \in MatchedRules)
    /\ Cardinality(MatchedRules) <= 2

\* a frame with both touches active satisfies a flex guard and a tilt guard
C13_Witness ==
    /\ touch1 = 1 /\ touch2 = 1
    /\ MatchedRules = {GESTURE_OPEN_HAND, GESTURE_LEFT}
    /\ pc = "publish"
    /\ gestureCode = 2

\* the positions of loop() outside the supervisor: the interval test,
\* detectGesture, debounceTouchSensor and publishGesture
PipelinePcs == {"loop_millis", "detect_read", "debounce_read1", "debounce_delay",
                "debounce_read2", "debounce_done", "classify", "publish"}

\* the positions inside connectToWiFi and inside connectToMQTT
WiFiPcs == {"wifi_begin", "wifi_status", "wifi_delay"}
MqttPcs == {"mqtt_connected", "mqtt_connect", "mqtt_connecting", "mqtt_delay"}

\* C14 as claimed: the steps of the interval test, detectGesture,
\* debounceTouchSensor and publishGesture leave the link and the session
\* unchanged and call neither WiFi.begin nor connect, and every forward
\* transition happens inside the connect functions: the link goes from Down
\* to Up only while the firmware is in connectToWiFi, the session goes to
\* Connecting and to Connected only while it is in connectToMQTT.
C14_ForwardOnlyInSupervisor ==
    /\ [](callSite \in {"none", "wifi_begin", "mqtt_connect"})
    /\ [][ /\ (pc' # pc /\ pc \in PipelinePcs) => UNCHANGED <<link, sess>>
           /\ (link = "Down" /\ link' = "Up") => pc \in WiFiPcs
           /\ (sess' = "Connecting" /\ sess # "Connecting") => pc \in MqttPcs
           /\ (sess' = "Connected" /\ sess # "Connected") => pc \in MqttPcs
         ]_vars

\* C14: no step of the interval test, detectGesture, debounceTouchSensor or
\* publishGesture changes the link or the session, and none calls
\* WiFi.begin or connect: such a call is only ever made at line 92 of
\* connectToWiFi or at line 109 of connectToMQTT.  The session goes to
\* Connecting and to Connected only inside connectToMQTT.  The link goes
\* from Down to Up by no step of the firmware: the station started by
\* WiFi.begin associates on its own, at any position of the program.
C14_SupervisorOnlyMutator ==
    /\ [](callSite \in {"none", "wifi_begin", "mqtt_connect"})
    /\ [][ /\ (pc' # pc /\ pc \in PipelinePcs)
                 => UNCHANGED <<link, sess, staStarted, callSite>>
           /\ (callSite' # "none") => (callSite' = callSite \/ callSite' = pc)
           /\ (sess' = "Connecting" /\ sess # "Connecting") => pc = "mqtt_connect"
           /\ (sess' = "Connected" /\ sess # "Connected") => pc = "mqtt_connecting"
           /\ (link = "Down" /\ link' = "Up") => (staStarted /\ pc' = pc)
         ]_vars

\* publishGesture has returned from a failed send on a link that is up, and
\* the session is still Disconnected
C14_Witness ==
    /\ pc = "ensure_wifi"
    /\ sendsInTick = 1
    /\ sendResult = "Failure"
    /\ link = "Up"
    /\ sess = "Disconnected"

\* C15: detectGesture is called only from the interval test of loop(), only
\* when currentTime - lastReadTime, subtracted modulo the width of the
\* counter, is at least readInterval, and lastReadTime is set to the
\* current clock reading before the sensors are read; so at least
\* readInterval has really elapsed since the previous sample (or since
\* power-on) at every sample, also when the counter has wrapped in between.
\* And sampling does not stop: whenever loop() reaches the interval test,
\* whatever the counter and lastReadTime are (wrapped or not), a sample
\* follows, unless the link or the session is found lost before and the
\* firmware enters a connect function.
C15_SamplingCadence ==
    /\ [][ (pc' = "detect_read" /\ pc # "detect_read") =>
               /\ pc = "loop_millis"
               /\ (now - lastReadTime + ClockMod) % ClockMod >= readInterval \div DebounceDelay
               /\ elapsed >= readInterval \div DebounceDelay
               /\ lastReadTime' = now
               /\ now' = now
         ]_vars
    /\ (pc = "loop_millis") ~> (pc = "detect_read" \/ pc \in {"wifi_begin", "mqtt_connected"})

\* a sample is being taken at a clock reading below readInterval although a
\* sample was taken before: the counter has wrapped between the two samples
C15_Witness ==
    /\ pc = "detect_read"
    /\ sampled
    /\ lastReadTime = now
    /\ now < readInterval \div DebounceDelay

\* the order of the steps of setup()
BootOrder == <<"link", "session", "sensor">>

\* C16: the steps of setup() complete in the order connectToWiFi,
\* connectToMQTT, mpu.begin(), and loop() is entered, a sensor is read and a
\* payload is published only after all three; connectToWiFi returns only
\* from a test that saw the link Up and connectToMQTT only from a test that
\* saw the session Connected.
C16_StartupOrder ==
    /\ [](/\ IsPrefix(booted, BootOrder)
          /\ (sampled \/ everSent \/ caller = "loop" \/ stages # <<>>)
                => (booted = BootOrder /\ mpuReady = "ok")
          /\ pc \in {"mqtt_connected", "mqtt_connect", "mqtt_connecting", "mqtt_delay"}
                => Len(booted) >= 1
          /\ pc = "mpu_begin" => booted = SubSeq(BootOrder, 1, 2))
    /\ [][ /\ (pc = "wifi_status" /\ pc' \notin {"wifi_status", "wifi_delay"})
                 => link = "Up"
           /\ (pc = "mqtt_connected" /\ pc' \notin {"mqtt_connected", "mqtt_connect"})
                 => sess = "Connected"
           /\ (booted' # booted) => caller = "setup"
         ]_vars

\* setup() has completed its three steps and the first frame is about to be
\* read
C16_Witness ==
    /\ pc = "detect_read"
    /\ ~sampled
    /\ ~everSent
    /\ booted = BootOrder

=============================================================================
